---- MODULE Spec2Model ----
(***************************************************************************)
(* List projection of click (src/command/mod.rs): run_list_command,        *)
(* handle_list_result, build_specs, the built-in extractors and the time   *)
(* formatting, with the session's Context Memory (Env.last_objs); and the  *)
(* describe report (src/describe/legacy.rs): describe_object, keyval_str.  *)
(*                                                                         *)
(* Spec is a session of list commands; DescribeSpec, BuildSpec and         *)
(* DurationSpec apply describe_object, build_specs and time_since to the   *)
(* arguments their Init draws.                                             *)
(*                                                                         *)
(* Text is a sequence of ASCII codes, so that ordering (str::cmp) and      *)
(* regex matching are computed and not assumed.  A resource is an item id  *)
(* whose metadata is given by the Item* operators.                         *)
(***************************************************************************)
EXTENDS Integers, Sequences, FiniteSets, TLC

\* ------------------------------------------------------------------ bounds
\* resources known to the API server are 1..NumItems
NumItems == 3
\* the durations formatted are of up to MaxDays whole days, either way
MaxDays == 731

\* ------------------------------------------------------------------ options
None == [some |-> FALSE]
Some(x) == [some |-> TRUE, val |-> x]

\* ------------------------------------------------------------------ text
\* the ASCII codes of the characters the model's texts are made of
Ascii == [space |-> 32, lparen |-> 40, minus |-> 45, zero |-> 48, eq |-> 61, nl |-> 10,
          a |-> 97, b |-> 98, d |-> 100, h |-> 104, m |-> 109, n |-> 110, p |-> 112,
          r |-> 114, s |-> 115, y |-> 121]

Min(a, b) == IF a <= b THEN a ELSE b

\* str::cmp: lexicographic on bytes, a proper prefix is smaller
StrCmp(a, b) ==
  LET n == Min(Len(a), Len(b))
      diff == {i \in 1..n : a[i] # b[i]}
  IN IF diff = {}
       THEN (IF Len(a) < Len(b) THEN "Less" ELSE IF Len(a) > Len(b) THEN "Greater" ELSE "Equal")
       ELSE LET k == CHOOSE i \in diff : \A j \in diff : i <= j
            IN IF a[k] < b[k] THEN "Less" ELSE "Greater"

\* i64 division truncates toward zero
TruncDiv(a, b) == IF a >= 0 THEN a \div b ELSE -((-a) \div b)

RECURSIVE NatStr(_)
NatStr(n) == IF n < 10 THEN <<Ascii.zero + n>> ELSE NatStr(n \div 10) \o <<Ascii.zero + (n % 10)>>

\* format!("{}", i64)
IntStr(n) == IF n < 0 THEN <<Ascii.minus>> \o NatStr(-n) ELSE NatStr(n)

\* chrono::Duration::num_days / num_hours / num_minutes / num_seconds, on a
\* duration held in whole seconds
num_seconds(d) == d
num_minutes(d) == TruncDiv(d, 60)
num_hours(d) == TruncDiv(d, 3600)
num_days(d) == TruncDiv(d, 86400)

\* a slip: a year starts at 365 days, >= for >
format_duration_YearAt365(duration) ==
  IF num_days(duration) >= 365
    THEN LET days == num_days(duration)
             yrs == TruncDiv(days, 365)
         IN IntStr(yrs) \o <<Ascii.y, Ascii.space>> \o IntStr(num_days(duration) - (yrs * 365)) \o <<Ascii.d>>
  ELSE IF num_days(duration) > 0
    THEN IntStr(num_days(duration)) \o <<Ascii.d, Ascii.space>>
           \o IntStr(num_hours(duration) - (24 * num_days(duration))) \o <<Ascii.h>>
  ELSE IF num_hours(duration) > 0
    THEN IntStr(num_hours(duration)) \o <<Ascii.h, Ascii.space>>
           \o IntStr(num_minutes(duration) - (60 * num_hours(duration))) \o <<Ascii.m>>
  ELSE IF num_minutes(duration) > 0
    THEN IntStr(num_minutes(duration)) \o <<Ascii.m, Ascii.space>>
           \o IntStr(num_seconds(duration) - (60 * num_minutes(duration))) \o <<Ascii.s>>
  ELSE IntStr(num_seconds(duration)) \o <<Ascii.s>>

format_duration(duration) ==
  IF num_days(duration) > 365
    THEN LET days == num_days(duration)
             yrs == TruncDiv(days, 365)
         IN IntStr(yrs) \o <<Ascii.y, Ascii.space>> \o IntStr(num_days(duration) - (yrs * 365)) \o <<Ascii.d>>
  ELSE IF num_days(duration) > 0
    THEN IntStr(num_days(duration)) \o <<Ascii.d, Ascii.space>>
           \o IntStr(num_hours(duration) - (24 * num_days(duration))) \o <<Ascii.h>>
  ELSE IF num_hours(duration) > 0
    THEN IntStr(num_hours(duration)) \o <<Ascii.h, Ascii.space>>
           \o IntStr(num_minutes(duration) - (60 * num_hours(duration))) \o <<Ascii.m>>
  ELSE IF num_minutes(duration) > 0
    THEN IntStr(num_minutes(duration)) \o <<Ascii.m, Ascii.space>>
           \o IntStr(num_seconds(duration) - (60 * num_minutes(duration))) \o <<Ascii.s>>
  ELSE IntStr(num_seconds(duration)) \o <<Ascii.s>>

\* time_since(date) with Utc::now() = clock
time_since(date, clock) == format_duration(clock - date)

\* ------------------------------------------------------------------ resources
Items == 1..NumItems

\* metadata.name
ItemName(i) ==
  CASE i = 1 -> Some(<<Ascii.b>>)
    [] i = 2 -> Some(<<Ascii.a>>)
    [] i = 3 -> Some(<<Ascii.a, Ascii.b>>)
    [] OTHER -> Some(<<Ascii.b, Ascii.a + i>>)

\* metadata.namespace
ItemNamespace(i) == IF i = 2 THEN None ELSE Some(<<Ascii.n, Ascii.s>>)

\* metadata.creation_timestamp, seconds since the epoch
ItemCreated(i) ==
  CASE i = 1 -> Some(50)
    [] i = 2 -> None
    [] i = 3 -> Some(50)
    [] OTHER -> Some(7000)

\* metadata.labels, a BTreeMap iterated in key order
ItemLabels(i) == IF i = 1 THEN << <<(<<Ascii.a>>), (<<Ascii.b>>)>> >> ELSE << >>

\* the value a registered "Status" extractor reads
ItemStatus(i) ==
  CASE i = 1 -> Some(<<Ascii.r>>)
    [] i = 2 -> Some(<<Ascii.r>>)
    [] i = 3 -> None
    [] OTHER -> Some(<<Ascii.p>>)

\* get_kobj: the Object Handle (kind, name, namespace) of a resource
get_kobj(i) == [typ |-> "Pod", name |-> ItemName(i), namespace |-> ItemNamespace(i)]

\* ------------------------------------------------------------------ cells
\* CellSpec::new_index()
new_index == [index |-> TRUE, txt |-> << >>]

\* CellSpec from Option<Cow<str>>: an absent value is an empty cell
CellFrom(opt) == [index |-> FALSE, txt |-> IF opt.some THEN opt.val ELSE << >>]

\* Regex::is_match for a pattern of literal characters: substring search
is_match(pat, s) ==
  \E k \in 0..(Len(s) - Len(pat)) : \A j \in 1..Len(pat) : s[k + j] = pat[j]

\* CellSpec::matches: the index cell has no text to match
CellMatches(cell, pat) == ~cell.index /\ is_match(pat, cell.txt)

\* Ord for CellSpec: by rendered text
CellCmp(a, b) == StrCmp(a.txt, b.txt)

RECURSIVE keyval_string(_)
keyval_string(keyvals) ==
  IF keyvals = << >> THEN << >>
  ELSE Head(keyvals)[1] \o <<Ascii.eq>> \o Head(keyvals)[2] \o <<Ascii.nl>> \o keyval_string(Tail(keyvals))

extract_name(i) == ItemName(i)
extract_age(i, clock) ==
  IF ItemCreated(i).some THEN Some(time_since(ItemCreated(i).val, clock)) ELSE None
extract_namespace(i) == ItemNamespace(i)
extract_labels(i) == Some(keyval_string(ItemLabels(i)))

\* an Extractor<T> registered under "Status"
extract_status(i) == ItemStatus(i)

\* extractors: Option<&HashMap<String, Extractor<T>>>, a map from column name to
\* the extractor registered under it
StatusExtractors == [Status |-> "extract_status"]

\* extractor(item) for the extractor found in the registry
ApplyExtractor(extractor, i) ==
  CASE extractor = "extract_status" -> extract_status(i)

\* ------------------------------------------------------------------ row building
\* the match on *col of build_specs: can the column be extracted at all
CanExtract(col, extractors) ==
  \/ col \in {"Age", "Labels", "Name", "Namespace"}
  \/ extractors.some /\ col \in DOMAIN extractors.val

\* a slip: the registry is asked first, the built-in columns after it
ColumnCell_RegistryFirst(col, i, extractors, clock) ==
  IF extractors.some /\ col \in DOMAIN extractors.val
    THEN CellFrom(ApplyExtractor(extractors.val[col], i))
    ELSE CASE col = "Age" -> CellFrom(extract_age(i, clock))
           [] col = "Labels" -> CellFrom(extract_labels(i))
           [] col = "Name" -> CellFrom(extract_name(i))
           [] col = "Namespace" -> CellFrom(extract_namespace(i))

\* the cell pushed for one column of one item
ColumnCell(col, i, extractors, clock) ==
  CASE col = "Age" -> CellFrom(extract_age(i, clock))
    [] col = "Labels" -> CellFrom(extract_labels(i))
    [] col = "Name" -> CellFrom(extract_name(i))
    [] col = "Namespace" -> CellFrom(extract_namespace(i))
    [] OTHER -> CellFrom(ApplyExtractor(extractors.val[col], i))

\* a slip: a column that cannot be extracted gives an empty cell
BuildRow_Lenient(cols, i, extractors, include_index, clock) ==
  [panic |-> FALSE,
   row |-> (IF include_index THEN <<new_index>> ELSE << >>)
             \o [k \in 1..Len(cols) |->
                   IF CanExtract(cols[k], extractors)
                     THEN ColumnCell(cols[k], i, extractors, clock) ELSE CellFrom(None)]]

\* the row of one item, or a panic at its first column that cannot be extracted
BuildRow(cols, i, extractors, include_index, clock) ==
  IF \E k \in 1..Len(cols) : ~CanExtract(cols[k], extractors)
    THEN [panic |-> TRUE, row |-> << >>]
    ELSE [panic |-> FALSE,
          row |-> (IF include_index THEN <<new_index>> ELSE << >>)
                    \o [k \in 1..Len(cols) |-> ColumnCell(cols[k], i, extractors, clock)]]

\* a slip: only the first text cell is looked at
row_matches_First(row, regex) ==
  \E k \in 1..Len(row) :
    /\ CellMatches(row[k], regex)
    /\ \A j \in 1..(k - 1) : row[j].index

row_matches(row, regex) == \E k \in 1..Len(row) : CellMatches(row[k], regex)

\* build_specs: the (kobj, row) pairs of the items that pass the filter, in list
\* order; a panic while building any row ends the whole call
build_specs(cols, items, extractors, include_index, regex, clock) ==
  LET built == [n \in 1..Len(items) |-> BuildRow(cols, items[n], extractors, include_index, clock)]
      pushed == {n \in 1..Len(items) : ~regex.some \/ row_matches(built[n].row, regex.val)}
      \* the item whose pair is the k-th one pushed
      nth(k) == CHOOSE n \in pushed : Cardinality({m \in pushed : m < n}) = k - 1
  IN IF \E n \in 1..Len(items) : built[n].panic
       THEN [panic |-> TRUE, ret |-> << >>]
       ELSE [panic |-> FALSE,
             ret |-> [k \in 1..Cardinality(pushed) |-> <<get_kobj(items[nth(k)]), built[nth(k)].row>>]]

\* ------------------------------------------------------------------ sorting
\* a slip: sort_unstable_by, which here leaves equal elements the other way round
SortBy_Unstable(s, cmp) ==
  LET rank(i) == 1 + Cardinality({j \in 1..Len(s) : cmp[j][i] = "Less"})
                   + Cardinality({j \in (i + 1)..Len(s) : cmp[j][i] = "Equal"})
  IN [k \in 1..Len(s) |-> s[CHOOSE i \in 1..Len(s) : rank(i) = k]]

\* slice::sort_by: a stable sort. cmp[i][j] is the comparator's answer for s[i]
\* and s[j]. An element lands after every element that compares less and after
\* every earlier element that compares equal.
SortBy(s, cmp) ==
  LET rank(i) == 1 + Cardinality({j \in 1..Len(s) : cmp[j][i] = "Less"})
                   + Cardinality({j \in 1..(i - 1) : cmp[j][i] = "Equal"})
  IN [k \in 1..Len(s) |-> s[CHOOSE i \in 1..Len(s) : rank(i) = k]]

\* command_def::age_cmp: by elapsed time since creation, youngest first; a
\* resource without a creation timestamp counts as the oldest
age_cmp(a, b) ==
  LET ca == ItemCreated(a)
      cb == ItemCreated(b)
  IN CASE ~ca.some /\ ~cb.some -> "Equal"
       [] ~ca.some -> "Greater"
       [] ~cb.some -> "Less"
       [] ca.val > cb.val -> "Less"
       [] ca.val < cb.val -> "Greater"
       [] OTHER -> "Equal"

\* list.items.sort_by(|a, b| (func.cmp)(a, b))
PreSort(items) ==
  SortBy(items, [i \in 1..Len(items) |-> [j \in 1..Len(items) |-> age_cmp(items[i], items[j])]])

\* a slip: the comparator the other way round, b.cmp(a)
PostSort_Inverted(specs, idx) ==
  SortBy(specs, [i \in 1..Len(specs) |-> [j \in 1..Len(specs) |->
                   CellCmp(specs[j][2][idx], specs[i][2][idx])]])

\* specs.sort_by(|a, b| a.1.get(idx).unwrap().cmp(b.1.get(idx).unwrap()))
PostSort(specs, idx) ==
  SortBy(specs, [i \in 1..Len(specs) |-> [j \in 1..Len(specs) |->
                   CellCmp(specs[i][2][idx], specs[j][2][idx])]])

\* a slip: a column that is not there counts as the first one
Position_OrFirst(cols, colname) ==
  LET hits == {k \in 1..Len(cols) : cols[k] = colname}
  IN IF hits = {} THEN Some(0) ELSE Some((CHOOSE k \in hits : \A j \in hits : k <= j) - 1)

\* cols.iter().position(|&c| c == colname): 0-based, None when absent
Position(cols, colname) ==
  LET hits == {k \in 1..Len(cols) : cols[k] = colname}
  IN IF hits = {} THEN None ELSE Some((CHOOSE k \in hits : \A j \in hits : k <= j) - 1)

Reverse(s) == [k \in 1..Len(s) |-> s[Len(s) + 1 - k]]

\* a slip: the reverse flag is not looked at
Unzip_NoReverse(specs, reverse) ==
  [kobjs |-> [k \in 1..Len(specs) |-> specs[k][1]],
   rows |-> [k \in 1..Len(specs) |-> specs[k][2]]]

\* a slip: only the handles are reversed, the rows keep the order of specs
Unzip_KobjsOnly(specs, reverse) ==
  [kobjs |-> [k \in 1..Len(specs) |-> (IF reverse THEN Reverse(specs) ELSE specs)[k][1]],
   rows |-> [k \in 1..Len(specs) |-> specs[k][2]]]

\* a slip: only the rows are reversed, the handles keep the order of specs
Unzip_RowsOnly(specs, reverse) ==
  [kobjs |-> [k \in 1..Len(specs) |-> specs[k][1]],
   rows |-> [k \in 1..Len(specs) |-> (IF reverse THEN Reverse(specs) ELSE specs)[k][2]]]

\* specs.into_iter().rev().unzip() / specs.into_iter().unzip()
Unzip(specs, reverse) ==
  LET fin == IF reverse THEN Reverse(specs) ELSE specs
  IN [kobjs |-> [k \in 1..Len(fin) |-> fin[k][1]],
      rows |-> [k \in 1..Len(fin) |-> fin[k][2]]]

\* ------------------------------------------------------------------ rendering
\* table::print_table_kapi: the index cell of the k-th printed row shows k
print_table_kapi(titles, rows) ==
  [kind |-> "table",
   titles |-> titles,
   rows |-> [k \in 1..Len(rows) |->
               [c \in 1..Len(rows[k]) |->
                  IF rows[k][c].index THEN IntStr(k) ELSE rows[k][c].txt]]]

\* clickwriteln!(writer, "Asked to sort by {}, but it's not a column in the output")
SortWarning(colname) == [kind |-> "warning", col |-> colname]

\* Env::set_last_objs / Env::clear_last_objs
set_last_objs(kobjs) == kobjs
clear_last_objs == << >>

\* ------------------------------------------------------------------ handle_list_result
NoSort == [kind |-> "None"]
PreSortFunc == [kind |-> "Pre"]
PostSortFunc(colname) == [kind |-> "Post", col |-> colname]

\* a slip: the absent list leaves Context Memory as it was
AbsentList_Keep(objs) == [result |-> "Ok", out |-> << >>, last_objs |-> objs]

\* None => env.clear_last_objs()
AbsentList(objs) == [result |-> "Ok", out |-> << >>, last_objs |-> clear_last_objs]

\* the outcome of one call: the return value (or the panic), what was written, and
\* Context Memory afterwards
handle_list_result(objs, cols, list_opt, extractors, regex, sort, reverse, clock) ==
  IF ~list_opt.some
    THEN AbsentList(objs)
    ELSE
      LET items == IF sort.kind = "Pre" THEN PreSort(list_opt.val) ELSE list_opt.val
          built == build_specs(cols, items, extractors, TRUE, regex, clock)
          titles == <<"####">> \o cols
          index == IF sort.kind = "Post" THEN Position(cols, sort.col) ELSE None
          specs == IF index.some THEN PostSort(built.ret, index.val + 1 + 1) ELSE built.ret
          warn == IF sort.kind = "Post" /\ ~index.some THEN <<SortWarning(sort.col)>> ELSE << >>
          fin == Unzip(specs, reverse)
      IN IF built.panic
           THEN [result |-> "Panic", out |-> << >>, last_objs |-> objs]
           ELSE [result |-> "Ok",
                 out |-> warn \o <<print_table_kapi(titles, fin.rows)>>,
                 last_objs |-> set_last_objs(fin.kobjs)]

\* ------------------------------------------------------------------ run_list_command
\* table::get_regex: no pattern given, a compiled pattern, or the compile error of a
\* malformed one (here: a pattern with an unclosed group)
get_regex(matches) ==
  IF ~matches.regex.some THEN [err |-> FALSE, regex |-> None]
  ELSE IF \E k \in 1..Len(matches.regex.val) : matches.regex.val[k] = Ascii.lparen
    THEN [err |-> TRUE, regex |-> None]
    ELSE [err |-> FALSE, regex |-> matches.regex]

\* a slip: a malformed filter is dropped and the command goes on unfiltered
FilterOf_Continue(matches) == [abort |-> FALSE, regex |-> get_regex(matches).regex]

\* match get_regex(&matches) { Ok(r) => r, Err(s) => { writeln!(..); return Ok(()) } }
FilterOf(matches) == [abort |-> get_regex(matches).err, regex |-> get_regex(matches).regex]

mapped_val(key, map) ==
  LET hits == {k \in 1..Len(map) : map[k][1] = key}
  IN IF hits = {} THEN None ELSE Some(map[CHOOSE k \in hits : \A j \in hits : k <= j][2])

\* the closure mapping the "sort" argument to a SortFunc; it pushes the flag of an
\* extra column it sorts by, and panics on a name no map knows
SortOf(sortarg, col_map, extra_col_map) ==
  IF ~sortarg.some THEN [panic |-> FALSE, sort |-> NoSort, flags |-> << >>]
  ELSE IF sortarg.val = "age" THEN [panic |-> FALSE, sort |-> PreSortFunc, flags |-> << >>]
  ELSE IF mapped_val(sortarg.val, col_map).some
    THEN [panic |-> FALSE, sort |-> PostSortFunc(mapped_val(sortarg.val, col_map).val),
          flags |-> << >>]
  ELSE IF extra_col_map.some
    THEN LET ecm == extra_col_map.val
             hits == {k \in 1..Len(ecm) : ecm[k][1] = sortarg.val}
             last == CHOOSE k \in hits : \A j \in hits : j <= k
         IN IF hits = {} THEN [panic |-> TRUE, sort |-> NoSort, flags |-> << >>]
            ELSE [panic |-> FALSE, sort |-> PostSortFunc(ecm[last][2]),
                  flags |-> [k \in 1..Cardinality(hits) |-> sortarg.val]]
  ELSE [panic |-> TRUE, sort |-> NoSort, flags |-> << >>]

\* command_def::add_extra_cols: the column of every extra flag that was asked for,
\* then Labels when --labels is given
add_extra_cols(cols, labels, flags, ecm) ==
  LET asked(k) == \E f \in 1..Len(flags) : flags[f] = ecm[k][1]
      add[n \in 0..Len(ecm)] ==
        IF n = 0 THEN cols
        ELSE IF asked(n) THEN Append(add[n - 1], ecm[n][2]) ELSE add[n - 1]
  IN add[Len(ecm)] \o (IF labels THEN <<"Labels">> ELSE << >>)

\* writeln!(stderr(), "{}", s) for the error of get_regex
RegexError == [kind |-> "error"]

\* what run_list_command hands to handle_list_result once the filter compiled: the
\* SortFunc of the "sort" argument (a panic when no map knows it), the columns with
\* the extra ones, the filter and the reverse flag
ListArgs(matches, cols, col_map, extra_col_map, extractors, list_opt, namespace) ==
  LET so == SortOf(matches.sort, col_map, extra_col_map)
      flags == matches.show \o so.flags
                 \o (IF extra_col_map.some /\ ~namespace.some
                        /\ mapped_val("namespace", extra_col_map.val).some
                      THEN <<"namespace">> ELSE << >>)
  IN [panic |-> so.panic,
      cols |-> IF extra_col_map.some
                 THEN add_extra_cols(cols, matches.labels, flags, extra_col_map.val)
                 ELSE cols,
      list_opt |-> list_opt,
      extractors |-> extractors,
      regex |-> FilterOf(matches).regex,
      sort |-> so.sort,
      reverse |-> matches.reverse]

run_list_command(objs, matches, cols, col_map, extra_col_map, extractors, list_opt, namespace, clock) ==
  IF FilterOf(matches).abort
    THEN [result |-> "Ok", out |-> <<RegexError>>, last_objs |-> objs, fetched |-> FALSE]
    ELSE
      LET args == ListArgs(matches, cols, col_map, extra_col_map, extractors, list_opt, namespace)
          res == handle_list_result(objs, args.cols, args.list_opt, args.extractors, args.regex,
                                    args.sort, args.reverse, clock)
      IN IF args.panic
           THEN [result |-> "Panic", out |-> << >>, last_objs |-> objs, fetched |-> TRUE]
           ELSE [result |-> res.result, out |-> res.out, last_objs |-> res.last_objs,
                 fetched |-> TRUE]

\* ------------------------------------------------------------------ describe: texts
\* the string literals of describe/legacy.rs and the keys of the resource trees,
\* as byte sequences
Text ==
  [token |-> <<116, 111, 107, 101, 110>>,
   metadata |-> <<109, 101, 116, 97, 100, 97, 116, 97>>,
   type |-> <<116, 121, 112, 101>>,
   data |-> <<100, 97, 116, 97>>,
   labels |-> <<108, 97, 98, 101, 108, 115>>,
   name |-> <<110, 97, 109, 101>>,
   creationTimestamp |-> <<99, 114, 101, 97, 116, 105, 111, 110, 84, 105, 109, 101, 115, 116, 97, 109, 112>>,
   status |-> <<115, 116, 97, 116, 117, 115>>,
   phase |-> <<112, 104, 97, 115, 101>>,
   spec |-> <<115, 112, 101, 99>>,
   replicas |-> <<114, 101, 112, 108, 105, 99, 97, 115>>,
   \* "kubernetes.io/service-account-token"
   service_account_token |-> <<107, 117, 98, 101, 114, 110, 101, 116, 101, 115, 46, 105, 111, 47, 115,
                               101, 114, 118, 105, 99, 101, 45, 97, 99, 99, 111, 117, 110, 116, 45,
                               116, 111, 107, 101, 110>>,
   Opaque |-> <<79, 112, 97, 113, 117, 101>>,
   \* "Could not decode secret"
   could_not_decode |-> <<67, 111, 117, 108, 100, 32, 110, 111, 116, 32, 100, 101, 99, 111, 100, 101,
                          32, 115, 101, 99, 114, 101, 116>>,
   \* "Invalid utf-8 data"
   invalid_utf8 |-> <<73, 110, 118, 97, 108, 105, 100, 32, 117, 116, 102, 45, 56, 32, 100, 97, 116, 97>>,
   \* " bytes"
   bytes |-> <<32, 98, 121, 116, 101, 115>>,
   \* "<none>", "<unknown>"
   none |-> <<60, 110, 111, 110, 101, 62>>,
   unknown |-> <<60, 117, 110, 107, 110, 111, 119, 110, 62>>,
   \* "<No CreationTime>", "<No Phase>", "<No Name>", "<No Type>"
   no_creation_time |-> <<60, 78, 111, 32, 67, 114, 101, 97, 116, 105, 111, 110, 84, 105, 109, 101, 62>>,
   no_phase |-> <<60, 78, 111, 32, 80, 104, 97, 115, 101, 62>>,
   no_name |-> <<60, 78, 111, 32, 78, 97, 109, 101, 62>>,
   no_type |-> <<60, 78, 111, 32, 84, 121, 112, 101, 62>>,
   Running |-> <<82, 117, 110, 110, 105, 110, 103>>,
   Succeeded |-> <<83, 117, 99, 99, 101, 101, 100, 101, 100>>,
   Failed |-> <<70, 97, 105, 108, 101, 100>>,
   \* " UTC"
   utc |-> <<32, 85, 84, 67>>]

\* ------------------------------------------------------------------ describe: serde_json::Value
\* a map is the sequence of its <<key, value>> entries in key order
Null == [kind |-> "Null"]
String(s) == [kind |-> "String", s |-> s]
Number(n) == [kind |-> "Number", n |-> n]
Object(map) == [kind |-> "Object", map |-> map]

as_str(v) == IF v.kind = "String" THEN Some(v.s) ELSE None
as_u64(v) == IF v.kind = "Number" /\ v.n >= 0 THEN Some(v.n) ELSE None
as_object(v) == IF v.kind = "Object" THEN Some(v.map) ELSE None

\* Value::get(key): the member of an object, None for anything else
get(v, key) ==
  IF v.kind = "Object" /\ \E k \in 1..Len(v.map) : v.map[k][1] = key
    THEN Some(v.map[CHOOSE k \in 1..Len(v.map) : v.map[k][1] = key][2])
    ELSE None

\* Value::pointer for a pointer given as its reference tokens: "/a/b" is <<a, b>>,
\* "" is << >> and names the whole value
RECURSIVE pointer(_, _)
pointer(v, path) ==
  IF path = << >> THEN Some(v)
  ELSE IF get(v, Head(path)).some THEN pointer(get(v, Head(path)).val, Tail(path))
  ELSE None

\* values::val_str / values::val_u64: the text (number) at the pointer, the default
\* when nothing is there or it is no text (number)
val_str(path, v, default) ==
  IF pointer(v, path).some /\ as_str(pointer(v, path).val).some
    THEN as_str(pointer(v, path).val).val ELSE default
val_u64(path, v, default) ==
  IF pointer(v, path).some /\ as_u64(pointer(v, path).val).some
    THEN as_u64(pointer(v, path).val).val ELSE default

\* ------------------------------------------------------------------ describe: base64, UTF-8
\* the value of a symbol of the standard alphabet, -1 for any other byte
B64Val(c) ==
  CASE c \in 65..90 -> c - 65
    [] c \in 97..122 -> c - 71
    [] c \in 48..57 -> c + 4
    [] c = 43 -> 62
    [] c = 47 -> 63
    [] OTHER -> -1

\* base64::decode: the symbols before the padding, four of them giving three bytes.
\* An error for a byte outside the alphabet, for a lone trailing symbol, for padding
\* that does not fill the last group and for trailing bits that are not zero.
base64_decode(s) ==
  LET pad == IF Len(s) >= 2 /\ s[Len(s)] = Ascii.eq /\ s[Len(s) - 1] = Ascii.eq THEN 2
             ELSE IF Len(s) >= 1 /\ s[Len(s)] = Ascii.eq THEN 1 ELSE 0
      m == Len(s) - pad
      val(i) == IF i <= m THEN B64Val(s[i]) ELSE 0
      group(g) == val(4 * g - 3) * 262144 + val(4 * g - 2) * 4096 + val(4 * g - 1) * 64 + val(4 * g)
      n == (6 * m) \div 8
      byte(j) == CASE (j - 1) % 3 = 0 -> group((j - 1) \div 3 + 1) \div 65536
                   [] (j - 1) % 3 = 1 -> (group((j - 1) \div 3 + 1) \div 256) % 256
                   [] OTHER -> group((j - 1) \div 3 + 1) % 256
      bad == \/ \E i \in 1..m : B64Val(s[i]) = -1
             \/ m % 4 = 1
             \/ pad > 0 /\ Len(s) % 4 # 0
             \/ m % 4 = 2 /\ B64Val(s[m]) % 16 # 0
             \/ m % 4 = 3 /\ B64Val(s[m]) % 4 # 0
  IN IF bad THEN [ok |-> FALSE, dec |-> << >>]
     ELSE [ok |-> TRUE, dec |-> [j \in 1..n |-> byte(j)]]

\* str::from_utf8(..).is_ok(): the well-formed byte sequences of UTF-8
RECURSIVE is_utf8(_)
is_utf8(b) ==
  LET cont(k, lo, hi) == Len(b) >= k /\ b[k] \in lo..hi
      rest(k) == is_utf8(SubSeq(b, k + 1, Len(b)))
  IN \/ b = << >>
     \/ b # << >> /\
          \/ b[1] \in 0..127 /\ rest(1)
          \/ b[1] \in 194..223 /\ cont(2, 128, 191) /\ rest(2)
          \/ b[1] = 224 /\ cont(2, 160, 191) /\ cont(3, 128, 191) /\ rest(3)
          \/ b[1] \in (225..236) \cup (238..239) /\ cont(2, 128, 191) /\ cont(3, 128, 191) /\ rest(3)
          \/ b[1] = 237 /\ cont(2, 128, 159) /\ cont(3, 128, 191) /\ rest(3)
          \/ b[1] = 240 /\ cont(2, 144, 191) /\ cont(3, 128, 191) /\ cont(4, 128, 191) /\ rest(4)
          \/ b[1] \in 241..243 /\ cont(2, 128, 191) /\ cont(3, 128, 191) /\ cont(4, 128, 191) /\ rest(4)
          \/ b[1] = 244 /\ cont(2, 128, 143) /\ cont(3, 128, 191) /\ cont(4, 128, 191) /\ rest(4)

\* ------------------------------------------------------------------ describe: keyval_str
\* the always-omit key set handed to keyval_string
\* ("kubectl.kubernetes.io/last-applied-configuration")
DESCRIBE_SKIP_KEYS ==
  {<<107, 117, 98, 101, 99, 116, 108, 46, 107, 117, 98, 101, 114, 110, 101, 116, 101, 115, 46, 105,
     111, 47, 108, 97, 115, 116, 45, 97, 112, 112, 108, 105, 101, 100, 45, 99, 111, 110, 102, 105,
     103, 117, 114, 97, 116, 105, 111, 110>>}

\* command::keyval_string(iter, Some(skip)): a "key=val\n" line for every pair whose
\* key is not in the skip set
keyval_string_skip(keyvals, skip) ==
  keyval_string(SelectSeq(keyvals, LAMBDA kv : kv[1] \notin skip))

\* a slip: the type of the resource is not looked at
is_service_token_AnyType(v, key, secret_vals) == secret_vals /\ key = Text.token

\* a slip: the secret flag of the dump is not looked at
is_service_token_Unflagged(v, key, secret_vals) ==
  IF key = Text.token
    THEN LET t == pointer(v, <<Text.type>>)
             typ == IF t.some /\ as_str(t.val).some THEN as_str(t.val).val ELSE << >>
         IN typ = Text.service_account_token
    ELSE FALSE

\* let is_service_token = if secret_vals && key == "token" { typ == ".." } else { false }
is_service_token(v, key, secret_vals) ==
  IF secret_vals /\ key = Text.token
    THEN LET t == pointer(v, <<Text.type>>)
             typ == IF t.some /\ as_str(t.val).some THEN as_str(t.val).val ELSE << >>
         IN typ = Text.service_account_token
    ELSE FALSE

\* a slip: a value that does not decode is shown as it is
computed_val_RawOnFailure(v, key, val, secret_vals) ==
  IF is_service_token(v, key, secret_vals)
    THEN IF ~as_str(val).some THEN [panic |-> TRUE, val |-> << >>]
         ELSE LET dec == base64_decode(as_str(val).val)
              IN IF dec.ok
                   THEN [panic |-> FALSE,
                         val |-> IF is_utf8(dec.dec) THEN dec.dec ELSE Text.invalid_utf8]
                   ELSE [panic |-> FALSE, val |-> Text.could_not_decode]
  ELSE IF secret_vals
    THEN IF ~as_str(val).some THEN [panic |-> TRUE, val |-> << >>]
         ELSE LET dec == base64_decode(as_str(val).val)
              IN IF dec.ok
                   THEN [panic |-> FALSE, val |-> IntStr(Len(dec.dec)) \o Text.bytes]
                   ELSE [panic |-> FALSE, val |-> as_str(val).val]
  ELSE [panic |-> FALSE, val |-> IF as_str(val).some THEN as_str(val).val ELSE Text.unknown]

\* a slip: val.as_str().unwrap_or(""), a value that is no string decodes as the
\* empty text
computed_val_Lenient(v, key, val, secret_vals) ==
  LET s == IF as_str(val).some THEN as_str(val).val ELSE << >>
      dec == base64_decode(s)
  IN IF is_service_token(v, key, secret_vals)
       THEN IF dec.ok
              THEN [panic |-> FALSE,
                    val |-> IF is_utf8(dec.dec) THEN dec.dec ELSE Text.invalid_utf8]
              ELSE [panic |-> FALSE, val |-> Text.could_not_decode]
     ELSE IF secret_vals
       THEN IF dec.ok
              THEN [panic |-> FALSE, val |-> IntStr(Len(dec.dec)) \o Text.bytes]
              ELSE [panic |-> FALSE, val |-> Text.could_not_decode]
     ELSE [panic |-> FALSE, val |-> IF as_str(val).some THEN as_str(val).val ELSE Text.unknown]

\* the closure's computed_val for one entry; val.as_str().unwrap() panics on a value
\* that is no string
computed_val(v, key, val, secret_vals) ==
  IF is_service_token(v, key, secret_vals)
    THEN IF ~as_str(val).some THEN [panic |-> TRUE, val |-> << >>]
         ELSE LET dec == base64_decode(as_str(val).val)
              IN IF dec.ok
                   THEN [panic |-> FALSE,
                         val |-> IF is_utf8(dec.dec) THEN dec.dec ELSE Text.invalid_utf8]
                   ELSE [panic |-> FALSE, val |-> Text.could_not_decode]
  ELSE IF secret_vals
    THEN IF ~as_str(val).some THEN [panic |-> TRUE, val |-> << >>]
         ELSE LET dec == base64_decode(as_str(val).val)
              IN IF dec.ok
                   THEN [panic |-> FALSE, val |-> IntStr(Len(dec.dec)) \o Text.bytes]
                   ELSE [panic |-> FALSE, val |-> Text.could_not_decode]
  ELSE [panic |-> FALSE, val |-> IF as_str(val).some THEN as_str(val).val ELSE Text.unknown]

\* keyval_str: the dump of the object map at parent, "<none>" when there is none.
\* The closure runs for every entry the iterator yields, skipped keys included.
keyval_str(v, parent, secret_vals) ==
  IF pointer(v, parent).some /\ as_object(pointer(v, parent).val).some
    THEN LET keyvals == as_object(pointer(v, parent).val).val
             comp == [k \in 1..Len(keyvals) |->
                        computed_val(v, keyvals[k][1], keyvals[k][2], secret_vals)]
         IN IF \E k \in 1..Len(keyvals) : comp[k].panic
              THEN [panic |-> TRUE, text |-> << >>]
              ELSE [panic |-> FALSE,
                    text |-> keyval_string_skip([k \in 1..Len(keyvals) |->
                                                   <<keyvals[k][1], comp[k].val>>],
                                                DESCRIBE_SKIP_KEYS)]
    ELSE [panic |-> FALSE, text |-> Text.none]

\* ------------------------------------------------------------------ describe: describe_object
\* the zone of the session, chrono::offset::Local: an hour east of UTC
Local == [hours |-> 1]

IsDigit(c) == c \in 48..57
TwoDigits(s, k) == (s[k] - 48) * 10 + (s[k + 1] - 48)
Pad2(n) == <<48 + (n \div 10), 48 + (n % 10)>>

\* DateTime::<Utc>::from_str: an RFC 3339 instant, "2020-01-02T03:04:05Z"; anything
\* else is a ParseError
from_str(s) ==
  IF /\ Len(s) = 20
     /\ \A k \in {1, 2, 3, 4, 6, 7, 9, 10, 12, 13, 15, 16, 18, 19} : IsDigit(s[k])
     /\ s[5] = 45 /\ s[8] = 45 /\ s[11] = 84 /\ s[14] = 58 /\ s[17] = 58 /\ s[20] = 90
     /\ TwoDigits(s, 6) \in 1..12 /\ TwoDigits(s, 9) \in 1..31
     /\ TwoDigits(s, 12) < 24 /\ TwoDigits(s, 15) < 60 /\ TwoDigits(s, 18) < 60
    THEN [ok |-> TRUE, date |-> SubSeq(s, 1, 10), hour |-> TwoDigits(s, 12),
          min |-> TwoDigits(s, 15), sec |-> TwoDigits(s, 18)]
    ELSE [ok |-> FALSE]

\* Display of DateTime<Utc>: "2020-01-02 03:04:05 UTC"
DisplayUtc(t) ==
  t.date \o <<32>> \o Pad2(t.hour) \o <<58>> \o Pad2(t.min) \o <<58>> \o Pad2(t.sec) \o Text.utc

\* Display of created.with_timezone(&Local): "2020-01-02 04:04:05 +01:00" (for an
\* instant that is on the same day in the local zone)
DisplayLocal(t) ==
  t.date \o <<32>> \o Pad2(t.hour + Local.hours) \o <<58>> \o Pad2(t.min) \o <<58>> \o Pad2(t.sec)
    \o <<32, 43>> \o Pad2(Local.hours) \o <<58, 48, 48>>

\* Colour::paint(..).to_string(): the text between the colour's escape sequence and
\* the reset sequence
paint(colour, text) ==
  <<27, 91, 51, (CASE colour = "Red" -> 49 [] colour = "Green" -> 50 [] OTHER -> 51), 109>>
    \o text \o <<27, 91, 48, 109>>

pod_phase(v) ==
  LET phase_str == val_str(<<Text.status, Text.phase>>, v, Text.no_phase)
      colour == CASE phase_str \in {Text.Running, Text.Succeeded} -> "Green"
                  [] phase_str = Text.Failed -> "Red"
                  [] OTHER -> "Yellow"
  IN paint(colour, phase_str)

\* func(v) for the transform a CustomFunc descriptor carries
ApplyFunc(func, v) ==
  CASE func = "pod_phase" -> pod_phase(v)

\* the DescItem variants
ValStr(path, default) == [item |-> "ValStr", path |-> path, default |-> default]
Valu64(path, default) == [item |-> "Valu64", path |-> path, default |-> default]
KeyValStr(parent, secret_vals) == [item |-> "KeyValStr", parent |-> parent, secret_vals |-> secret_vals]
MetadataValStr(path, default) == [item |-> "MetadataValStr", path |-> path, default |-> default]
ObjectCreated == [item |-> "ObjectCreated"]
CustomFunc(path, func, default) == [item |-> "CustomFunc", path |-> path, func |-> func, default |-> default]

\* the ObjectCreated arm: DateTime::from_str(&val_str(..)).unwrap(), then
\* format!("{} ({})", created, created.with_timezone(&Local))
Created(metadata) ==
  LET created == from_str(val_str(<<Text.creationTimestamp>>, metadata, Text.no_creation_time))
  IN IF ~created.ok THEN [panic |-> TRUE, text |-> << >>]
     ELSE [panic |-> FALSE,
           text |-> DisplayUtc(created) \o <<32, 40>> \o DisplayLocal(created) \o <<41>>]

\* a slip: a CustomFunc without a path gives its default
Custom_NoPathDefault(v, item) ==
  LET value == IF item.path.some THEN pointer(v, item.path.val) ELSE None
  IN IF value.some THEN ApplyFunc(item.func, value.val) ELSE item.default

\* the CustomFunc arm
Custom(v, item) ==
  LET value == IF item.path.some THEN pointer(v, item.path.val) ELSE Some(v)
  IN IF value.some THEN ApplyFunc(item.func, value.val) ELSE item.default

\* the match on item: the text of one descriptor, or the panic of its arm
ItemVal(v, metadata, item) ==
  CASE item.item = "ValStr" -> [panic |-> FALSE, text |-> val_str(item.path, v, item.default)]
    [] item.item = "Valu64" -> [panic |-> FALSE, text |-> IntStr(val_u64(item.path, v, item.default))]
    [] item.item = "KeyValStr" -> keyval_str(v, item.parent, item.secret_vals)
    [] item.item = "MetadataValStr" ->
         [panic |-> FALSE, text |-> val_str(item.path, metadata, item.default)]
    [] item.item = "ObjectCreated" -> Created(metadata)
    [] item.item = "CustomFunc" -> [panic |-> FALSE, text |-> Custom(v, item)]

\* describe_object: a row <<title, text>> is added to the table for every field in
\* turn; v.get("metadata").unwrap() and the arms can panic, and the table then holds
\* the rows added before
describe_object(v, fields) ==
  IF ~get(v, Text.metadata).some THEN [result |-> "Panic", table |-> << >>]
  ELSE
    LET metadata == get(v, Text.metadata).val
        vals == [k \in 1..Len(fields) |-> ItemVal(v, metadata, fields[k][2])]
        bad == {k \in 1..Len(fields) : vals[k].panic}
        n == IF bad = {} THEN Len(fields) ELSE (CHOOSE k \in bad : \A j \in bad : k <= j) - 1
    IN [result |-> IF bad = {} THEN "Ok" ELSE "Panic",
        table |-> [k \in 1..n |-> <<fields[k][1], vals[k].text>>]]

\* ------------------------------------------------------------------ state
VARIABLES
  cluster,    \* the resources the API server lists during the session, in the
              \* order it lists them
  last_objs,  \* Context Memory: Env.last_objs
  call,       \* the arguments of the last command, [op |-> "none"] before any
  result,     \* its return value, "Panic" when it panicked
  out,        \* what it wrote to the writer and to stderr
  fetched     \* whether it ran the list request

vars == <<cluster, last_objs, call, result, out, fetched>>

\* Utc::now(), in seconds since the epoch: the reading during the session (the Age
\* text is the only thing that depends on it)
Now == 3700

\* the lists the API server can return: any resources, each once, in any order
Lists ==
  {s \in UNION {[1..n -> Items] : n \in 0..NumItems} :
     \A i, j \in 1..Len(s) : i # j => s[i] # s[j]}

\* c.execute_list(request): the list, or None when the request failed
ListOpts == {None, Some(cluster)}

\* the columns a command asks for with the registry it passes: <<cols, extractors>>
ColumnChoices ==
  {<< <<"Name", "Status">>, Some(StatusExtractors) >>,
   << <<"Name", "Namespace", "Age", "Labels">>, None >>,
   << <<"Name", "Status">>, None >>,
   << <<"Name", "Bogus">>, Some(StatusExtractors) >>}
RegexChoices == {None, Some(<<Ascii.r>>)}
SortChoices == {NoSort, PreSortFunc, PostSortFunc("Name"), PostSortFunc("Status")}

\* the arguments of a command built on run_list_command
RegexArgs == {None, Some(<<Ascii.a>>)}
BadRegexArgs == {Some(<<Ascii.lparen, Ascii.a>>)}
SortArgs == {None, Some("age"), Some("status"), Some("namespace")}
ColMap == << <<"name", "Name">>, <<"status", "Status">> >>
ExtraColMap == << <<"namespace", "Namespace">> >>
\* the extra column map and env.namespace
ExtraChoices ==
  {<<None, None>>, <<Some(ExtraColMap), None>>, <<Some(ExtraColMap), Some(<<Ascii.n, Ascii.s>>)>>}

Init ==
  /\ cluster \in Lists
  /\ last_objs = << >>
  /\ call = [op |-> "none"]
  /\ result = "None"
  /\ out = << >>
  /\ fetched = FALSE

\* a panic ends the process
Alive == result # "Panic"

HandleListResult ==
  /\ Alive
  /\ \E cc \in ColumnChoices, list_opt \in ListOpts,
        regex \in RegexChoices, sort \in SortChoices, reverse \in BOOLEAN :
       \E cols \in {cc[1]}, extractors \in {cc[2]} :
       \E res \in {handle_list_result(last_objs, cols, list_opt, extractors, regex, sort,
                                      reverse, Now)} :
          /\ call' = [op |-> "handle_list_result", cols |-> cols, list_opt |-> list_opt,
                      extractors |-> extractors, regex |-> regex, sort |-> sort,
                      reverse |-> reverse]
          /\ result' = res.result
          /\ out' = res.out
          /\ last_objs' = res.last_objs
          /\ fetched' = TRUE
  /\ UNCHANGED cluster

\* a command built on run_list_command, given a filter that compiles (or none);
\* its list request succeeds
RunListCommand ==
  /\ Alive
  /\ \E rx \in RegexArgs, sortarg \in SortArgs, reverse \in BOOLEAN, list_opt \in {Some(cluster)},
        extra \in ExtraChoices :
       \E matches \in {[regex |-> rx, show |-> << >>, sort |-> sortarg, labels |-> FALSE,
                        reverse |-> reverse]} :
       \E res \in {run_list_command(last_objs, matches, <<"Name", "Status">>, ColMap, extra[1],
                                    Some(StatusExtractors), list_opt, extra[2], Now)} :
          /\ call' = [op |-> "run_list_command", matches |-> matches,
                      cols |-> <<"Name", "Status">>, col_map |-> ColMap,
                      extra_col_map |-> extra[1], extractors |-> Some(StatusExtractors),
                      list_opt |-> list_opt, namespace |-> extra[2]]
          /\ result' = res.result
          /\ out' = res.out
          /\ last_objs' = res.last_objs
          /\ fetched' = res.fetched
  /\ UNCHANGED cluster

\* the same command given a malformed filter
RunListCommandBadRegex ==
  /\ Alive
  /\ \E rx \in BadRegexArgs :
       \E matches \in {[regex |-> rx, show |-> << >>, sort |-> None, labels |-> FALSE,
                        reverse |-> FALSE]} :
       \E res \in {run_list_command(last_objs, matches, <<"Name", "Status">>, ColMap, None,
                                    Some(StatusExtractors), Some(cluster), None, Now)} :
          /\ call' = [op |-> "run_list_command", matches |-> matches,
                      cols |-> <<"Name", "Status">>, col_map |-> ColMap,
                      extra_col_map |-> None, extractors |-> Some(StatusExtractors),
                      list_opt |-> Some(cluster), namespace |-> None]
          /\ result' = res.result
          /\ out' = res.out
          /\ last_objs' = res.last_objs
          /\ fetched' = res.fetched
  /\ UNCHANGED cluster

Next == HandleListResult \/ RunListCommand \/ RunListCommandBadRegex

Spec == Init /\ [][Next]_vars

\* ------------------------------------------------------------------ describe: the session
\* an object from its members in key order, each present (Some) or left out (None)
ObjectOf(members) ==
  LET present == SelectSeq(members, LAMBDA p : p[2].some)
  IN Object([k \in 1..Len(present) |-> <<present[k][1], present[k][2].val>>])

Opts(S) == {None} \cup {Some(x) : x \in S}

\* the values of the entries of a secret's data: the base64 of "xz", "yz", "x" and
\* of the byte 0xFF, a text that is no base64, and values that are no text
EntryVals ==
  {String(<<101, 72, 111, 61>>), String(<<101, 88, 111, 61>>), String(<<101, 65, 61, 61>>),
   String(<<47, 119, 61, 61>>), String(<<101, 42, 61, 61>>), Null, Number(7)}

\* /data: absent, no object, or a map with some of the keys "k", the always-omitted
\* key and "token"
DataVals ==
  {String(<<Ascii.a>>)}
    \cup {ObjectOf(<< <<(<<107>>), k>>, <<(CHOOSE s \in DESCRIBE_SKIP_KEYS : TRUE), skipped>>,
                      <<Text.token, token>> >>) :
            k \in Opts(EntryVals), skipped \in Opts({String(<<101, 72, 111, 61>>), Null}),
            token \in Opts(EntryVals)}

\* /type: absent, the service account token type, another type, no text
TypeVals == {String(Text.service_account_token), String(Text.Opaque), Number(1)}

\* /metadata: absent, empty, or with a name and a creation timestamp that is well
\* formed ("2020-01-02T03:04:05Z"), malformed ("yesterday") or no text
MetadataVals ==
  {ObjectOf(<< <<Text.creationTimestamp, ts>>,
               <<Text.labels, Some(ObjectOf(<< <<(<<Ascii.a>>), Some(String(<<Ascii.b>>))>>,
                                               <<Text.token, Some(Number(7))>> >>))>>,
               <<Text.name, name>> >>) :
     ts \in Opts({String(<<50, 48, 50, 48, 45, 48, 49, 45, 48, 50, 84, 48, 51, 58, 48, 52, 58, 48, 53, 90>>),
                  String(<<121, 101, 115, 116, 101, 114, 100, 97, 121>>), Number(7)}),
     name \in Opts({String(<<Ascii.p>>)})}

\* the trees describe is given, serde_json::to_value of a resource: secrets, which
\* differ in /type and /data, and other objects, which differ in /metadata, /spec
\* and /status
Trees ==
  {ObjectOf(<< <<Text.data, data>>,
               <<Text.metadata, Some(ObjectOf(<< <<Text.name, Some(String(<<Ascii.s>>))>> >>))>>,
               <<Text.type, type>> >>) :
     data \in Opts(DataVals), type \in Opts(TypeVals)}
  \cup
  {ObjectOf(<< <<Text.metadata, metadata>>, <<Text.spec, spec>>, <<Text.status, status>> >>) :
     metadata \in Opts(MetadataVals),
     spec \in Opts({ObjectOf(<< <<Text.replicas, Some(Number(3))>> >>),
                    ObjectOf(<< <<Text.replicas, Some(String(<<Ascii.a>>))>>,
                                <<Text.status, Some(ObjectOf(<< <<Text.phase, Some(String(Text.Failed))>> >>))>> >>)}),
     status \in Opts({ObjectOf(<< <<Text.phase, Some(String(Text.Running))>> >>), ObjectOf(<< >>)})}

\* the (title, DescItem) pairs the describe_format_* functions pass
Fields ==
  {<<"Name:", MetadataValStr(<<Text.name>>, Text.no_name)>>,
   <<"Type:", ValStr(<<Text.type>>, Text.no_type)>>,
   <<"Replicas:", Valu64(<<Text.spec, Text.replicas>>, 0)>>,
   <<"Data:", KeyValStr(<<Text.data>>, TRUE)>>,
   <<"Plain:", KeyValStr(<<Text.data>>, FALSE)>>,
   <<"Labels:", KeyValStr(<<Text.metadata, Text.labels>>, FALSE)>>,
   <<"Created at:", ObjectCreated>>,
   <<"Status:", CustomFunc(None, "pod_phase", Text.no_phase)>>,
   <<"Spec:", CustomFunc(Some(<<Text.spec>>), "pod_phase", Text.none)>>}

\* the field lists: up to two fields, in any order
FieldLists == {<< >>} \cup {<<f>> : f \in Fields} \cup {<<f, g>> : f, g \in Fields}

DescribeInit ==
  /\ cluster = << >>
  /\ last_objs = << >>
  /\ call \in {[op |-> "describe_object", v |-> v, fields |-> fields] :
                 v \in Trees, fields \in FieldLists}
  /\ result = "None"
  /\ out = << >>
  /\ fetched = FALSE

\* describe_object(&v, fields, table): out is the table afterwards
DescribeObject ==
  /\ result = "None"
  /\ \E res \in {describe_object(call.v, call.fields)} :
       /\ result' = res.result
       /\ out' = res.table
  /\ UNCHANGED <<cluster, last_objs, call, fetched>>

DescribeNext == DescribeObject

DescribeSpec == DescribeInit /\ [][DescribeNext]_vars

\* ------------------------------------------------------------------ build_specs on its own
\* a registry that also has an entry under the name of a built-in column
ShadowExtractors == [Name |-> "extract_status", Status |-> "extract_status"]

BuildCols ==
  {<< >>, <<"Name", "Status">>, <<"Status", "Name">>, <<"Name", "Namespace", "Age", "Labels">>,
   <<"Age", "Status", "Age">>, <<"Name", "Bogus">>}
BuildExtractors == {None, Some(StatusExtractors), Some(ShadowExtractors)}

BuildInit ==
  /\ cluster \in Lists
  /\ last_objs = << >>
  /\ call \in {[op |-> "build_specs", cols |-> cols, extractors |-> extractors,
                include_index |-> include_index, regex |-> regex] :
                 cols \in BuildCols, extractors \in BuildExtractors,
                 include_index \in BOOLEAN, regex \in RegexChoices}
  /\ result = "None"
  /\ out = << >>
  /\ fetched = FALSE

\* build_specs(cols, &list, extractors, include_index, regex, get_kobj): out is the
\* vector it returns
BuildSpecs ==
  /\ result = "None"
  /\ \E res \in {build_specs(call.cols, cluster, call.extractors, call.include_index,
                             call.regex, Now)} :
       /\ result' = (IF res.panic THEN "Panic" ELSE "Ok")
       /\ out' = res.ret
  /\ UNCHANGED <<cluster, last_objs, call, fetched>>

BuildNext == BuildSpecs

BuildSpec == BuildInit /\ [][BuildNext]_vars

\* ------------------------------------------------------------------ time_since on its own
\* the time between a date and now, in whole days, hours, minutes and seconds; the
\* date is in the future when future is set
Spans ==
  [days : 0..MaxDays, hours : {0, 1, 23}, minutes : {0, 1, 59}, seconds : {0, 1, 59},
   future : BOOLEAN]

SpanSeconds(sp) == sp.days * 86400 + sp.hours * 3600 + sp.minutes * 60 + sp.seconds

DurationInit ==
  /\ cluster = << >>
  /\ last_objs = << >>
  /\ call \in {[op |-> "time_since", span |-> sp,
                date |-> IF sp.future THEN Now + SpanSeconds(sp) ELSE Now - SpanSeconds(sp)] :
                 sp \in Spans}
  /\ result = "None"
  /\ out = << >>
  /\ fetched = FALSE

\* time_since(date): out is the text it returns
TimeSince ==
  /\ result = "None"
  /\ result' = "Ok"
  /\ out' = time_since(call.date, Now)
  /\ UNCHANGED <<cluster, last_objs, call, fetched>>

DurationNext == TimeSince

DurationSpec == DurationInit /\ [][DurationNext]_vars

\* ------------------------------------------------------------------ properties
\* the last command reached handle_list_result
Projected ==
  \/ call.op = "handle_list_result"
  \/ /\ call.op = "run_list_command"
     /\ ~FilterOf(call.matches).abort
     /\ ~ListArgs(call.matches, call.cols, call.col_map, call.extra_col_map, call.extractors,
                  call.list_opt, call.namespace).panic

\* the arguments handle_list_result was given
Proj ==
  IF call.op = "handle_list_result" THEN call
  ELSE ListArgs(call.matches, call.cols, call.col_map, call.extra_col_map, call.extractors,
                call.list_opt, call.namespace)

\* the source list was present
Listed == Projected /\ Proj.list_opt.some
SourceList == Proj.list_opt.val

Rendered == \E k \in 1..Len(out) : out[k].kind = "table"
TableRows == out[CHOOSE k \in 1..Len(out) : out[k].kind = "table"].rows

\* the cell texts of a resource under the columns of the last projection
ItemTexts(i) ==
  [k \in 1..Len(Proj.cols) |-> ColumnCell(Proj.cols[k], i, Proj.extractors, Now).txt]

AllExtractable == \A k \in 1..Len(Proj.cols) : CanExtract(Proj.cols[k], Proj.extractors)

\* the resource passes the filter of the last projection
Passes(i) ==
  ~Proj.regex.some \/ \E k \in 1..Len(Proj.cols) : is_match(Proj.regex.val, ItemTexts(i)[k])

Remembered(i) == \E k \in 1..Len(last_objs) : last_objs[k] = get_kobj(i)

\* C1: after a list projection whose source list is present and that completes,
\* Context Memory is exactly the handle sequence of the emitted rows: as long as
\* the table, its k-th handle derived from the resource of the k-th row, every
\* handle once, and a resource of the list has its handle there iff its row was
\* emitted (nothing of an earlier projection is left).
C1_ContextMemoryIsEmittedHandles ==
  (Listed /\ result = "Ok") =>
    /\ Rendered
    /\ Len(last_objs) = Len(TableRows)
    /\ \A k \in 1..Len(last_objs) :
         \E n \in 1..Len(SourceList) :
           /\ last_objs[k] = get_kobj(SourceList[n])
           /\ Tail(TableRows[k]) = ItemTexts(SourceList[n])
    /\ \A j, k \in 1..Len(last_objs) : j # k => last_objs[j] # last_objs[k]
    /\ \A n \in 1..Len(SourceList) : Remembered(SourceList[n]) <=> Passes(SourceList[n])

\* a filtered, sorted and reversed projection that kept some rows and dropped others
C1_Witness ==
  /\ Listed /\ result = "Ok"
  /\ Proj.regex.some /\ Proj.sort.kind = "Post" /\ Proj.reverse
  /\ Len(last_objs) >= 2
  /\ Len(last_objs) < Len(SourceList)

\* C2: an absent source list is no error: the call returns Ok, renders nothing and
\* leaves Context Memory empty, whatever the columns, filter, sort and reverse flag.
C2_AbsentListClears ==
  (Projected /\ ~Proj.list_opt.some) =>
    /\ result = "Ok"
    /\ out = << >>
    /\ last_objs = << >>

\* an absent list with columns that could not be extracted, a filter, a sort and
\* the reverse flag
C2_Witness ==
  /\ Projected /\ ~Proj.list_opt.some
  /\ ~AllExtractable /\ Proj.regex.some /\ Proj.sort.kind = "Pre" /\ Proj.reverse
  /\ result = "Ok" /\ last_objs = << >>

\* the last command was run_list_command with a filter that does not compile
BadFilter == call.op = "run_list_command" /\ get_regex(call.matches).err

\* C3 as claimed: after a malformed filter the list is still fetched, every resource
\* is a row of the rendered table and Context Memory holds their handles.
C3_Original ==
  BadFilter =>
    /\ fetched
    /\ Rendered
    /\ last_objs = [k \in 1..Len(call.list_opt.val) |-> get_kobj(call.list_opt.val[k])]

\* C3: a malformed filter is reported and ends run_list_command at once: it returns
\* Ok, writes only the error, runs no list request, renders nothing and leaves
\* Context Memory as it was.
C3_MalformedFilterEndsCommand ==
  [][BadFilter' =>
       /\ result' = "Ok"
       /\ out' = <<RegexError>>
       /\ ~fetched'
       /\ last_objs' = last_objs]_vars

\* a malformed filter after a projection that had filled Context Memory
C3_Witness ==
  /\ BadFilter
  /\ result = "Ok" /\ ~fetched
  /\ last_objs # << >>
  /\ cluster # << >>

\* the order of the source list
Before(a, b) ==
  \E m, n \in 1..Len(SourceList) : m < n /\ get_kobj(SourceList[m]) = a /\ get_kobj(SourceList[n]) = b

\* the places of the sort column among the columns shown
ShownAt == {k \in 1..Len(Proj.cols) : Proj.cols[k] = Proj.sort.col}

\* no sort reordered the rows of the last projection
Unsorted ==
  \/ Proj.sort.kind = "None"
  \/ Proj.sort.kind = "Post" /\ ShownAt = {}

\* the handles before the reversal
Emitted == IF Proj.reverse THEN Reverse(last_objs) ELSE last_objs

\* C4: with a filter a resource's row is emitted iff one of its cells' text matches,
\* without one every row is emitted; rows are never more than resources, keep the
\* order of the list unless a sort ran, an empty list gives an empty table, and
\* dropping rows is no error.
C4_FilterKeepsMatchingRows ==
  (Listed /\ AllExtractable) =>
    /\ result = "Ok"
    /\ Rendered
    /\ \A n \in 1..Len(SourceList) : Remembered(SourceList[n]) <=> Passes(SourceList[n])
    /\ \A k \in 1..Len(TableRows) :
         \E c \in 2..Len(TableRows[k]) : ~Proj.regex.some \/ is_match(Proj.regex.val, TableRows[k][c])
    /\ Len(TableRows) <= Len(SourceList)
    /\ Unsorted => \A j, k \in 1..Len(Emitted) : j < k => Before(Emitted[j], Emitted[k])
    /\ SourceList = << >> => TableRows = << >>

\* a filter that matches a cell other than the first of some rows and no cell of
\* another, on an unsorted projection
C4_Witness ==
  /\ Listed /\ AllExtractable /\ result = "Ok"
  /\ Proj.regex.some /\ Unsorted
  /\ Len(SourceList) = 3
  /\ Len(TableRows) = 2
  /\ \E n \in 1..3 : ~Passes(SourceList[n])
  /\ \A k \in 1..2 : ~is_match(Proj.regex.val, TableRows[k][2])

\* a requested column is neither built in nor in the registry
Unresolved == Listed /\ ~AllExtractable

\* C5 as claimed: an unresolved column is fatal for any source list that is present.
C5_Original ==
  Unresolved => (result = "Panic" /\ out = << >>)

\* C5: an unresolved column is fatal as soon as the first row is built, so for any
\* source list that is present and not empty: the call panics, emits and renders
\* nothing, and Context Memory keeps the value it had.
C5_UnresolvedColumnIsFatal ==
  [][(Unresolved' /\ SourceList' # << >>) =>
       /\ result' = "Panic"
       /\ out' = << >>
       /\ last_objs' = last_objs]_vars

\* the panic of a filtered projection, after one that had filled Context Memory
C5_Witness ==
  /\ Unresolved /\ SourceList # << >>
  /\ result = "Panic"
  /\ Proj.regex.some
  /\ last_objs # << >>

\* the resource a handle was derived from
ItemOf(h) == CHOOSE i \in Items : get_kobj(i) = h

\* every rendered row shows, after its index, the cells of the resource whose
\* handle Context Memory holds at the same position
Paired ==
  /\ Len(TableRows) = Len(last_objs)
  /\ \A k \in 1..Len(TableRows) : Tail(TableRows[k]) = ItemTexts(ItemOf(last_objs[k]))

\* the post-extraction sort named a column that is not among the columns shown
UnknownSortColumn == Listed /\ Proj.sort.kind = "Post" /\ ShownAt = {}

\* C6: a post-extraction sort on a column that is not in the active column set
\* gives a warning and an unsorted table: the rows keep the filtered order of the
\* list before the reversal, the table is rendered after the warning, the call
\* returns Ok and Context Memory holds the emitted handles. (The columns shown can
\* all be extracted; otherwise the panic of C5 comes first.)
C6_UnknownSortColumnWarns ==
  (UnknownSortColumn /\ AllExtractable) =>
    /\ result = "Ok"
    /\ Len(out) = 2
    /\ out[1] = SortWarning(Proj.sort.col)
    /\ out[2].kind = "table"
    /\ Paired
    /\ \A n \in 1..Len(SourceList) : Remembered(SourceList[n]) <=> Passes(SourceList[n])
    /\ \A j, k \in 1..Len(Emitted) : j < k => Before(Emitted[j], Emitted[k])

\* an unknown sort column on a list whose first column is not in text order
C6_Witness ==
  /\ UnknownSortColumn /\ AllExtractable /\ result = "Ok"
  /\ ~Proj.reverse
  /\ Len(TableRows) = 3
  /\ StrCmp(TableRows[1][2], TableRows[2][2]) = "Greater"

\* the outcome of the last projection had the reverse flag not been given
Forward ==
  handle_list_result(<< >>, Proj.cols, Proj.list_opt, Proj.extractors, Proj.regex, Proj.sort,
                     FALSE, Now)
ForwardRows == Forward.out[Len(Forward.out)].rows

\* C7: the reversal comes last and does not depend on the sort: with the reverse
\* flag the handles and the rows are, element by element, the reverse of what the
\* same call gives without it, for every list, column set, filter and sort
\* directive, and every handle stays with its row.
C7_ReverseIsLast ==
  (Listed /\ result = "Ok" /\ Proj.reverse) =>
    /\ Forward.result = "Ok"
    /\ Len(out) = Len(Forward.out)
    /\ Len(last_objs) = Len(Forward.last_objs)
    /\ \A k \in 1..Len(last_objs) :
         /\ last_objs[k] = Forward.last_objs[Len(last_objs) + 1 - k]
         /\ Tail(TableRows[k]) = Tail(ForwardRows[Len(last_objs) + 1 - k])
    /\ Paired

\* a reversed projection of three rows that a sort had reordered
C7_Witness ==
  /\ Listed /\ result = "Ok" /\ Proj.reverse
  /\ Proj.sort.kind = "Pre"
  /\ Len(last_objs) = 3
  /\ \E j, k \in 1..3 : j < k /\ Before(Emitted[k], Emitted[j])

\* the post-extraction sort ran on a column that is shown
PostSorted == Listed /\ result = "Ok" /\ Proj.sort.kind = "Post" /\ ShownAt # {}

\* the place of the sort column in a rendered row: its first place among the
\* columns, after the index cell
SortCell == (CHOOSE k \in ShownAt : \A j \in ShownAt : k <= j) + 1

\* the rows in descending order: the same stable sort of the same rows, the
\* comparator inverted
Descending ==
  LET specs == build_specs(Proj.cols, SourceList, Proj.extractors, TRUE, Proj.regex, Now).ret
      sorted == SortBy(specs, [i \in 1..Len(specs) |-> [j \in 1..Len(specs) |->
                         CellCmp(specs[j][2][SortCell], specs[i][2][SortCell])]])
  IN [k \in 1..Len(sorted) |-> [c \in 1..Len(Proj.cols) |-> sorted[k][2][c + 1].txt]]

FinalRows == [k \in 1..Len(TableRows) |-> Tail(TableRows[k])]

\* C8 as claimed: sorting ascending by a column and reversing gives the row
\* sequence of sorting descending by it, rows of equal text included.
C8_Original ==
  (PostSorted /\ Proj.reverse) => FinalRows = Descending

DistinctSortTexts ==
  \A j, k \in 1..Len(TableRows) : j # k => TableRows[j][SortCell] # TableRows[k][SortCell]

\* C8: sorting ascending by a column and reversing gives the row sequence of
\* sorting descending by it when no two emitted rows have the same text in that
\* column; in any case the two sequences show the same text in that column at
\* every position.
C8_ReverseOfAscendingIsDescending ==
  (PostSorted /\ Proj.reverse) =>
    /\ Len(FinalRows) = Len(Descending)
    /\ \A k \in 1..Len(FinalRows) : FinalRows[k][SortCell - 1] = Descending[k][SortCell - 1]
    /\ DistinctSortTexts => FinalRows = Descending

\* three rows of different names, sorted by name and reversed, that the list had
\* in another order
C8_Witness ==
  /\ PostSorted /\ Proj.reverse
  /\ Proj.sort.col = "Name"
  /\ Len(TableRows) = 3
  /\ DistinctSortTexts
  /\ \E j, k \in 1..3 : j < k /\ ~Before(Emitted[j], Emitted[k])

\* the rendered rows before the reversal
EmittedRows == IF Proj.reverse THEN Reverse(TableRows) ELSE TableRows

\* C9: both sorts are stable. After the pre-extraction sort the rows are those of
\* the resources that pass the filter, each once, in the order of the comparator,
\* and resources that compare equal keep the order of the list; after the
\* post-extraction sort the same holds for the order of the text of the cell at
\* the column's position plus one (the index cell comes first). Ties keep the
\* order of the list itself, so the other sort did not run as well.
C9_SortsAreStable ==
  /\ (Listed /\ result = "Ok" /\ Proj.sort.kind = "Pre") =>
       /\ Paired
       /\ \A n \in 1..Len(SourceList) : Remembered(SourceList[n]) <=> Passes(SourceList[n])
       /\ \A j, k \in 1..Len(Emitted) : j < k =>
            /\ age_cmp(ItemOf(Emitted[j]), ItemOf(Emitted[k])) # "Greater"
            /\ age_cmp(ItemOf(Emitted[j]), ItemOf(Emitted[k])) = "Equal"
                 => Before(Emitted[j], Emitted[k])
  /\ PostSorted =>
       /\ Paired
       /\ \A n \in 1..Len(SourceList) : Remembered(SourceList[n]) <=> Passes(SourceList[n])
       /\ \A j, k \in 1..Len(Emitted) : j < k =>
            /\ StrCmp(EmittedRows[j][SortCell], EmittedRows[k][SortCell]) # "Greater"
            /\ EmittedRows[j][SortCell] = EmittedRows[k][SortCell]
                 => Before(Emitted[j], Emitted[k])

\* a post-extraction sort by the second column that moved a row past two rows of
\* equal text, which the comparator of the other sort would have swapped
C9_Witness ==
  /\ PostSorted /\ Proj.sort.col = "Status" /\ ~Proj.reverse
  /\ Len(TableRows) = 3
  /\ TableRows[2][SortCell] = TableRows[3][SortCell]
  /\ Before(last_objs[3], last_objs[1])
  /\ age_cmp(ItemOf(last_objs[3]), ItemOf(last_objs[2])) = "Less"

\* a pre-extraction sort that moved a resource past two that compare equal
C9_WitnessPre ==
  /\ Listed /\ result = "Ok" /\ Proj.sort.kind = "Pre" /\ ~Proj.reverse
  /\ Len(last_objs) = 3
  /\ age_cmp(ItemOf(last_objs[1]), ItemOf(last_objs[2])) = "Equal"
  /\ Before(last_objs[3], last_objs[1])

\* C10: the rendered rows are numbered 1..N in their final order, and the row
\* numbered k shows the resource of the k-th handle of Context Memory.
C10_IndexIsFinalPosition ==
  (Listed /\ result = "Ok") =>
    /\ \A k \in 1..Len(TableRows) : TableRows[k][1] = IntStr(k)
    /\ Paired

\* a filtered and reversed table whose first row is the last resource of the list
C10_Witness ==
  /\ Listed /\ result = "Ok"
  /\ Proj.regex.some /\ Proj.reverse
  /\ Len(SourceList) = 3 /\ Len(TableRows) = 2
  /\ TableRows[1][1] = IntStr(1) /\ TableRows[2][1] = IntStr(2)
  /\ last_objs[1] = get_kobj(SourceList[3])

\* ------------------------------------------------------------------ properties of describe
\* describe_object has run on the tree and the fields of call
Described == call.op = "describe_object" /\ result # "None"

\* the rows of the table that dump the object map at their parent path, with the
\* given secret flag
DumpRows(flag) ==
  {k \in 1..Len(out) :
     /\ call.fields[k][2].item = "KeyValStr"
     /\ call.fields[k][2].secret_vals = flag
     /\ pointer(call.v, call.fields[k][2].parent).some
     /\ pointer(call.v, call.fields[k][2].parent).val.kind = "Object"}

\* the entries of the map a row dumps, without the always-omitted keys
Shown(k) ==
  SelectSeq(pointer(call.v, call.fields[k][2].parent).val.map,
            LAMBDA kv : kv[1] \notin DESCRIBE_SKIP_KEYS)

\* a text cut at its line ends
RECURSIVE Lines(_)
Lines(t) ==
  LET ends == {i \in 1..Len(t) : t[i] = Ascii.nl}
      first == CHOOSE i \in ends : \A j \in ends : i <= j
  IN IF t = << >> THEN << >>
     ELSE IF ends = {} THEN <<t>>
     ELSE <<SubSeq(t, 1, first - 1)>> \o Lines(SubSeq(t, first + 1, Len(t)))

\* the j-th line of the dump of row k
Line(k, j) == Lines(out[k][2])[j]

\* what the line shows after "key="
RenderedVal(k, j) == SubSeq(Line(k, j), Len(Shown(k)[j][1]) + 2, Len(Line(k, j)))

\* the tree's /type is the text "kubernetes.io/service-account-token"
IsTokenSecret == get(call.v, Text.type) = Some(String(Text.service_account_token))

\* the tree with the value at a path replaced
RECURSIVE Replace(_, _, _)
Replace(v, path, new) ==
  IF path = << >> THEN new
  ELSE Object([k \in 1..Len(v.map) |->
                 IF v.map[k][1] = Head(path)
                   THEN <<v.map[k][1], Replace(v.map[k][2], Tail(path), new)>>
                   ELSE v.map[k]])

\* two entry values that base64 decoding cannot tell apart by length: both fail to
\* decode, or both decode to as many bytes
SameLength(a, b) ==
  /\ a.kind = "String" /\ b.kind = "String"
  /\ base64_decode(a.s).ok = base64_decode(b.s).ok
  /\ Len(base64_decode(a.s).dec) = Len(base64_decode(b.s).dec)

\* C11: in a dump flagged secret-bearing every entry other than the token of a
\* service account token secret shows "<n> bytes", n the decoded length, when its
\* value is base64 and "Could not decode secret" when it is not; what it shows
\* contains neither the value nor its decoded bytes, and the row of the dump is the
\* same for any other value that decodes to the same length.
C11_SecretEntriesShowOnlyLength ==
  Described =>
    \A k \in DumpRows(TRUE) :
      /\ Len(Lines(out[k][2])) = Len(Shown(k))
      /\ \A j \in 1..Len(Shown(k)) :
           LET key == Shown(k)[j][1]
               val == Shown(k)[j][2]
           IN ~(key = Text.token /\ IsTokenSecret) =>
                /\ val.kind = "String"
                /\ Line(k, j) = key \o <<Ascii.eq>>
                                  \o (IF base64_decode(val.s).ok
                                        THEN IntStr(Len(base64_decode(val.s).dec)) \o Text.bytes
                                        ELSE Text.could_not_decode)
                /\ ~is_match(val.s, RenderedVal(k, j))
                /\ base64_decode(val.s).ok => ~is_match(base64_decode(val.s).dec, RenderedVal(k, j))
                /\ \A other \in EntryVals :
                     SameLength(val, other) =>
                       describe_object(Replace(call.v, call.fields[k][2].parent \o <<key>>, other),
                                       call.fields).table[k] = out[k]

\* a flagged dump of a secret that is no service account token: its "token" entry
\* shows the length of "xz", its other entry is no base64, and "yz" is another
\* value of that length
C11_Witness ==
  /\ Described /\ result = "Ok"
  /\ ~IsTokenSecret
  /\ \E k \in DumpRows(TRUE) :
       /\ Len(Shown(k)) = 2
       /\ Shown(k)[1][2] = String(<<101, 42, 61, 61>>)
       /\ Shown(k)[2] = <<Text.token, String(<<101, 72, 111, 61>>)>>
       /\ RenderedVal(k, 1) = Text.could_not_decode
       /\ RenderedVal(k, 2) = <<50>> \o Text.bytes
       /\ SameLength(Shown(k)[2][2], String(<<101, 88, 111, 61>>))

\* the rows of the table that dump an object map, flagged or not
AllDumpRows == DumpRows(TRUE) \cup DumpRows(FALSE)

\* the entry is the token carve-out: the dump is flagged, the key is "token" and the
\* tree's /type is the service account token type
CarveOut(k, j) ==
  /\ call.fields[k][2].secret_vals
  /\ Shown(k)[j][1] = Text.token
  /\ IsTokenSecret

\* what the carve-out shows for a text: its decoded bytes, or one of the two
\* placeholders
DecodedText(s) ==
  IF ~base64_decode(s).ok THEN Text.could_not_decode
  ELSE IF is_utf8(base64_decode(s).dec) THEN base64_decode(s).dec
  ELSE Text.invalid_utf8

C12_WitnessOtherType ==
  /\ Described /\ result = "Ok"
  /\ get(call.v, Text.type) = Some(String(Text.Opaque))
  /\ \E k \in DumpRows(TRUE) :
       /\ Len(Shown(k)) = 1
       /\ Shown(k)[1] = <<Text.token, String(<<47, 119, 61, 61>>)>>
       /\ RenderedVal(k, 1) = <<49>> \o Text.bytes

\* the metadata sub-tree of the tree described
Metadata == get(call.v, Text.metadata).val

\* the first ObjectCreated field that describe_object reaches: every field before
\* it has given its row
CreatedAt ==
  {k \in 1..Len(call.fields) :
     /\ call.fields[k][2].item = "ObjectCreated"
     /\ k <= Len(out) + 1
     /\ \A j \in 1..(k - 1) : call.fields[j][2].item # "ObjectCreated"}

TimestampAbsent == ~get(Metadata, Text.creationTimestamp).some
TimestampWellFormed ==
  /\ get(Metadata, Text.creationTimestamp).some
  /\ get(Metadata, Text.creationTimestamp).val.kind = "String"
  /\ from_str(get(Metadata, Text.creationTimestamp).val.s).ok

\* C13 as claimed: at the ObjectCreated field an absent creation timestamp gives
\* the row of the default text and describe_object goes on, a present one that is
\* malformed is a panic, a well-formed one gives "<UTC> (<local>)".
C13_Original ==
  (Described /\ get(call.v, Text.metadata).some) =>
    \A k \in CreatedAt :
      /\ TimestampAbsent =>
           /\ Len(out) >= k
           /\ out[k] = <<call.fields[k][1], Text.no_creation_time>>
      /\ (~TimestampAbsent /\ ~TimestampWellFormed) =>
           /\ result = "Panic"
           /\ Len(out) = k - 1
      /\ TimestampWellFormed =>
           /\ Len(out) >= k
           /\ out[k][2] = DisplayUtc(from_str(get(Metadata, Text.creationTimestamp).val.s))
                            \o <<32, 40>>
                            \o DisplayLocal(from_str(get(Metadata, Text.creationTimestamp).val.s))
                            \o <<41>>

\* C13, what the code does: the default text of an absent creation timestamp is
\* parsed like a timestamp, so an absent one is a panic like a malformed one; only
\* a well-formed one gives a row, "<UTC> (<local>)".
C13_AbsentTimestampPanics ==
  (Described /\ get(call.v, Text.metadata).some) =>
    \A k \in CreatedAt :
      /\ ~TimestampWellFormed =>
           /\ result = "Panic"
           /\ Len(out) = k - 1
      /\ TimestampWellFormed =>
           /\ Len(out) >= k
           /\ out[k][2] = DisplayUtc(from_str(get(Metadata, Text.creationTimestamp).val.s))
                            \o <<32, 40>>
                            \o DisplayLocal(from_str(get(Metadata, Text.creationTimestamp).val.s))
                            \o <<41>>

\* a resource without a creation timestamp: describe_object panics at the
\* ObjectCreated field, after the row of the field before it
C13_Witness ==
  /\ Described /\ get(call.v, Text.metadata).some
  /\ TimestampAbsent
  /\ Len(call.fields) = 2
  /\ CreatedAt = {2}
  /\ result = "Panic"
  /\ Len(out) = 1

Absent(v, path) == ~pointer(v, path).some

\* a flagged dump of a map with a value that is no text
HoldsNonText(item) ==
  /\ item.item = "KeyValStr" /\ item.secret_vals
  /\ ~Absent(call.v, item.parent)
  /\ pointer(call.v, item.parent).val.kind = "Object"
  /\ \E e \in 1..Len(pointer(call.v, item.parent).val.map) :
       pointer(call.v, item.parent).val.map[e][2].kind # "String"

\* no arm of describe_object panics on the tree and the fields of call
Completes ==
  /\ get(call.v, Text.metadata).some
  /\ \A k \in 1..Len(call.fields) :
       /\ call.fields[k][2].item = "ObjectCreated" => TimestampWellFormed
       /\ ~HoldsNonText(call.fields[k][2])

\* C14: describe_object adds one row per field, in the order of the fields, with
\* the title of the field: the table is complete when it returns, and it returns
\* unless an arm panics (no metadata, a creation timestamp that does not parse, a
\* flagged dump with a value that is no text; the table then holds the rows of the
\* fields before). A field whose path is absent shows its default: the default
\* text of a ValStr and of a MetadataValStr (resolved in the metadata sub-tree),
\* the default number of a Valu64, "<none>" for a KeyValStr whose parent is absent
\* or no object, the default of a CustomFunc whose path does not resolve; a
\* CustomFunc without a path shows the transform of the whole tree.
C14_OneRowPerField ==
  Described =>
    /\ Len(out) <= Len(call.fields)
    /\ result = "Ok" => Len(out) = Len(call.fields)
    /\ result = "Ok" <=> Completes
    /\ \A k \in 1..Len(out) :
         LET item == call.fields[k][2]
             text == out[k][2]
         IN /\ out[k][1] = call.fields[k][1]
            /\ (item.item = "ValStr" /\ Absent(call.v, item.path)) => text = item.default
            /\ (item.item = "MetadataValStr" /\ Absent(Metadata, item.path)) => text = item.default
            /\ (item.item = "Valu64" /\ Absent(call.v, item.path)) => text = IntStr(item.default)
            /\ (item.item = "KeyValStr" /\ Absent(call.v, item.parent)) => text = Text.none
            /\ (item.item = "KeyValStr" /\ ~Absent(call.v, item.parent)
                  /\ pointer(call.v, item.parent).val.kind # "Object") => text = Text.none
            /\ (item.item = "CustomFunc" /\ item.path.some /\ Absent(call.v, item.path.val))
                 => text = item.default
            /\ (item.item = "CustomFunc" /\ item.path.some /\ ~Absent(call.v, item.path.val))
                 => text = ApplyFunc(item.func, pointer(call.v, item.path.val).val)
            /\ (item.item = "CustomFunc" /\ ~item.path.some) => text = ApplyFunc(item.func, call.v)

\* a tree without /status and /spec: the CustomFunc without a path shows the
\* transform of the tree, "<No Phase>" painted, and the Valu64 after it its default
C14_Witness ==
  /\ Described /\ result = "Ok"
  /\ Absent(call.v, <<Text.status>>) /\ Absent(call.v, <<Text.spec>>)
  /\ Len(out) = 2
  /\ call.fields[1][2] = CustomFunc(None, "pod_phase", Text.no_phase)
  /\ call.fields[2][2].item = "Valu64"
  /\ out[1] = <<"Status:", paint("Yellow", Text.no_phase)>>
  /\ out[2] = <<"Replicas:", <<Ascii.zero>> >>

\* a CustomFunc whose path does not resolve, after a dump whose parent is absent
C14_WitnessDefaults ==
  /\ Described /\ result = "Ok"
  /\ Len(out) = 2
  /\ out[1] = <<"Data:", Text.none>>
  /\ out[2] = <<"Spec:", Text.none>>
  /\ Absent(call.v, <<Text.data>>) /\ Absent(call.v, <<Text.spec>>)

\* the tree with its /type set to a value, or taken out
WithType(v, t) ==
  LET rest == SelectSeq(v.map, LAMBDA kv : kv[1] # Text.type)
  IN Object(IF t.some THEN Append(rest, <<Text.type, t.val>>) ELSE rest)

\* C15: in a dump that is not flagged secret-bearing every entry shows its value
\* as it is stored when it is a text and "<unknown>" when it is not: nothing is
\* decoded, the key (also "token") makes no difference, and the row is the same
\* whatever the /type of the tree.
C15_UnflaggedShowsValuesAsStored ==
  Described =>
    \A k \in DumpRows(FALSE) :
      /\ Len(Lines(out[k][2])) = Len(Shown(k))
      /\ \A j \in 1..Len(Shown(k)) :
           Line(k, j) = Shown(k)[j][1] \o <<Ascii.eq>>
                          \o (IF Shown(k)[j][2].kind = "String" THEN Shown(k)[j][2].s
                              ELSE Text.unknown)
      /\ \A t \in Opts(TypeVals) :
           /\ Len(describe_object(WithType(call.v, t), call.fields).table) >= k
           /\ describe_object(WithType(call.v, t), call.fields).table[k] = out[k]

\* an unflagged dump of the data of a service account token secret: the token
\* shows its stored base64 text, the other entry, a number, "<unknown>"
C15_Witness ==
  /\ Described /\ result = "Ok"
  /\ IsTokenSecret
  /\ \E k \in DumpRows(FALSE) :
       /\ Len(Shown(k)) = 2
       /\ Shown(k)[1][2] = Number(7)
       /\ Shown(k)[2] = <<Text.token, String(<<101, 72, 111, 61>>)>>
       /\ RenderedVal(k, 1) = Text.unknown
       /\ RenderedVal(k, 2) = <<101, 72, 111, 61>>

\* ------------------------------------------------------------------ properties of build_specs
Built == call.op = "build_specs" /\ result = "Ok"

\* what the metadata of a resource gives for a built-in column, what the registered
\* extractor reads for another one; << >> for an absent value
FixedText(col, i) ==
  CASE col = "Name" -> (IF ItemName(i).some THEN ItemName(i).val ELSE << >>)
    [] col = "Namespace" -> (IF ItemNamespace(i).some THEN ItemNamespace(i).val ELSE << >>)
    [] col = "Age" -> (IF ItemCreated(i).some THEN format_duration(Now - ItemCreated(i).val) ELSE << >>)
    [] col = "Labels" -> keyval_string(ItemLabels(i))
    [] col = "Status" -> (IF ItemStatus(i).some THEN ItemStatus(i).val ELSE << >>)

\* the place of the first column in a row
Lead == IF call.include_index THEN 1 ELSE 0

C16_WitnessAge ==
  /\ Built
  /\ call.cols = <<"Age", "Status", "Age">> /\ call.include_index
  /\ \E k \in 1..Len(out) :
       /\ ~ItemCreated(ItemOf(out[k][1])).some
       /\ Len(out[k][2]) = 4
       /\ out[k][2][2].txt = << >> /\ out[k][2][4].txt = << >>

\* the fields describe_object reached that dump an object map: every field before
\* has given its row
ReachedDumps ==
  {k \in 1..Len(call.fields) :
     /\ k <= Len(out) + 1
     /\ call.fields[k][2].item = "KeyValStr"
     /\ ~Absent(call.v, call.fields[k][2].parent)
     /\ pointer(call.v, call.fields[k][2].parent).val.kind = "Object"}

\* the entries of the map the field dumps, the always-omitted keys included
Entries(k) == pointer(call.v, call.fields[k][2].parent).val.map

\* C17: in a dump flagged secret-bearing a value that is no JSON string (null, a
\* number) is a panic, for the token of a service account token secret as for any
\* other entry: describe_object ends at that field and its row is not added. A
\* string that is no base64 is recovered, the row shows "Could not decode secret".
\* In an unflagged dump the value that is no string shows "<unknown>" and nothing
\* fails.
C17_NonTextSecretValuePanics ==
  (Described /\ get(call.v, Text.metadata).some) =>
    \A k \in ReachedDumps :
      /\ (call.fields[k][2].secret_vals
            /\ \E e \in 1..Len(Entries(k)) : Entries(k)[e][2].kind # "String") =>
           /\ result = "Panic"
           /\ Len(out) = k - 1
      /\ (call.fields[k][2].secret_vals
            /\ \A e \in 1..Len(Entries(k)) : Entries(k)[e][2].kind = "String") =>
           /\ Len(out) >= k
           /\ \A j \in 1..Len(Shown(k)) :
                ~base64_decode(Shown(k)[j][2].s).ok => RenderedVal(k, j) = Text.could_not_decode
      /\ ~call.fields[k][2].secret_vals =>
           /\ Len(out) >= k
           /\ \A j \in 1..Len(Shown(k)) :
                Shown(k)[j][2].kind # "String" => RenderedVal(k, j) = Text.unknown

\* the carve-out branch: the token of a service account token secret is null, the
\* other entry a base64 text; the flagged dump, the second field, panics
C17_Witness ==
  /\ Described /\ result = "Panic"
  /\ IsTokenSecret
  /\ Len(call.fields) = 2 /\ Len(out) = 1
  /\ ReachedDumps = {2}
  /\ call.fields[2][2].secret_vals
  /\ Entries(2) = << <<(<<107>>), String(<<101, 72, 111, 61>>)>>, <<Text.token, Null>> >>

\* the byte-count branch: an entry of an Opaque secret is a number
C17_WitnessBytes ==
  /\ Described /\ result = "Panic"
  /\ get(call.v, Text.type) = Some(String(Text.Opaque))
  /\ Len(call.fields) = 1 /\ Len(out) = 0
  /\ ReachedDumps = {1}
  /\ call.fields[1][2].secret_vals
  /\ Entries(1) = << <<(<<107>>), Number(7)>> >>

\* the same tree under an unflagged dump: the row shows "<unknown>"
C17_WitnessUnflagged ==
  /\ Described /\ result = "Ok"
  /\ get(call.v, Text.type) = Some(String(Text.Opaque))
  /\ Len(call.fields) = 1 /\ ReachedDumps = {1}
  /\ ~call.fields[1][2].secret_vals
  /\ Entries(1) = << <<(<<107>>), Number(7)>> >>
  /\ RenderedVal(1, 1) = Text.unknown

\* a flagged dump of a text that is no base64: the row shows the placeholder
C17_WitnessRecovered ==
  /\ Described /\ result = "Ok"
  /\ Len(call.fields) = 1 /\ ReachedDumps = {1}
  /\ call.fields[1][2].secret_vals
  /\ Entries(1) = << <<(<<107>>), String(<<101, 42, 61, 61>>)>> >>
  /\ RenderedVal(1, 1) = Text.could_not_decode

\* ------------------------------------------------------------------ properties of format_duration
Formatted == call.op = "time_since" /\ result = "Ok"

\* the two components of a text "<first><a> <second><b>"
Pair(first, a, second, b) == IntStr(first) \o <<a, Ascii.space>> \o IntStr(second) \o <<b>>

\* C18: format_duration shows the largest whole unit that is not zero with the
\* next one: more than 365 whole days "<y>y <d>d", y = days / 365 and 0 <= d < 365;
\* 1 to 365 whole days, 365 included, "<d>d <h>h", 0 <= h < 24; else 1 hour or more
\* "<h>h <m>m", 0 <= m < 60; else 1 minute or more "<m>m <s>s", 0 <= s < 60; else,
\* also for zero and for every date in the future, the seconds alone, "<s>s". The
\* first component times the base plus the second is the duration in whole units
\* of the second.
C18_LargestUnitPair ==
  Formatted =>
    LET sp == call.span
        total == SpanSeconds(sp)
    IN IF sp.future
         THEN out = (IF total = 0 THEN <<Ascii.zero>> ELSE <<Ascii.minus>> \o NatStr(total)) \o <<Ascii.s>>
       ELSE IF sp.days > 365
         THEN \E d \in 0..364 :
                /\ (sp.days - d) % 365 = 0
                /\ out = Pair((sp.days - d) \div 365, Ascii.y, d, Ascii.d)
       ELSE IF sp.days >= 1
         THEN /\ sp.days * 24 + sp.hours = total \div 3600
              /\ out = Pair(sp.days, Ascii.d, sp.hours, Ascii.h)
       ELSE IF sp.hours >= 1
         THEN /\ sp.hours * 60 + sp.minutes = total \div 60
              /\ out = Pair(sp.hours, Ascii.h, sp.minutes, Ascii.m)
       ELSE IF sp.minutes >= 1
         THEN /\ sp.minutes * 60 + sp.seconds = total
              /\ out = Pair(sp.minutes, Ascii.m, sp.seconds, Ascii.s)
       ELSE out = NatStr(sp.seconds) \o <<Ascii.s>>

\* 365 days, 23 hours, 59 minutes and 59 seconds ago: "365d 23h"
C18_Witness ==
  /\ Formatted
  /\ call.span = [days |-> 365, hours |-> 23, minutes |-> 59, seconds |-> 59, future |-> FALSE]
  /\ out = <<51, 54, 53, Ascii.d, Ascii.space, 50, 51, Ascii.h>>

\* 730 days and an hour ago: "2y 0d"
C18_WitnessYears ==
  /\ Formatted
  /\ call.span = [days |-> 730, hours |-> 1, minutes |-> 0, seconds |-> 0, future |-> FALSE]
  /\ out = <<50, Ascii.y, Ascii.space, 48, Ascii.d>>

\* a date two days in the future: "-172800s"
C18_WitnessFuture ==
  /\ Formatted
  /\ call.span = [days |-> 2, hours |-> 0, minutes |-> 0, seconds |-> 0, future |-> TRUE]
  /\ out = <<Ascii.minus, 49, 55, 50, 56, 48, 48, Ascii.s>>

====
